---- MODULE Spec2Model ----
(***************************************************************************)
(* Model of the Bayesian Context Trees engine (bct_main_with_log.py and    *)
(* tree_class.py).                                                         *)
(*                                                                         *)
(* Strings are sequences of symbols; the alphabet s is <<0, 1>> and 2 is a *)
(* symbol outside the alphabet.                                            *)
(*                                                                         *)
(* Log-values.  The program computes with floats x = log(p).  The model    *)
(* stores such a value as the exact rational p = exp(x), a pair <<n, d>>   *)
(* in lowest terms with d > 0 (p = 0 stands for -inf = np.log(0)).  Under  *)
(* this representation x + y is the product, x - y the quotient, and       *)
(* x > y and max(x, y) are the order and maximum of the rationals, since   *)
(* log is strictly increasing.  Floating-point rounding is not modelled.   *)
(***************************************************************************)
EXTENDS Integers, Sequences, FiniteSets, TLC

\* Bounds of the explored inputs.
MaxDmax == 2
MaxSample == 4

\* The alphabet (argument s of bct), in iteration order.
s == <<0, 1>>
m == Len(s)
Alphabet == {s[k] : k \in 1..m}
\* A symbol that is not in the alphabet.
BadSymbol == 2

VARIABLES
  dmax, beta, sample, initial_ctxt,   \* the arguments of bct
  pc,                                 \* position in bct
  i,                                  \* loop variable of construct_tau_max
  nodes, edges,                       \* the Tree object (tree / tau)
  counter,                            \* the counter dict
  max_nodes, max_edges,               \* the tree as returned by construct_tau_max
  log_pe_dict, log_pm_dict,           \* the two dicts of bct
  size,                               \* loop variable of construct_log_pm_dict
  queue,                              \* the work queue of bct
  visited,                            \* the nodes taken from queue[0], in order
  pm_root                             \* the returned probability

vars == <<dmax, beta, sample, initial_ctxt, pc, i, nodes, edges, counter,
          max_nodes, max_edges, log_pe_dict, log_pm_dict, size, queue,
          visited, pm_root>>

----------------------------------------------------------------------------
\* F(v), and F(v, w), with the arguments evaluated once, before F is applied:
\* x and y range over the values of the sets {v} and {w}.  An operator whose
\* parameter occurs several times in its body is written with these, so that
\* the argument is not evaluated again at every occurrence.
Strict(v, F(_)) == CHOOSE r \in {F(x) : x \in {v}} : TRUE
Strict2(v, w, F(_, _)) == CHOOSE r \in {F(x, y) : x \in {v}, y \in {w}} : TRUE

\* Exact rationals <<n, d>>, d > 0, in lowest terms.

RECURSIVE GCD(_, _)
GCD(a0, b0) ==
  Strict2(a0, b0, LAMBDA a, b : IF b = 0 THEN a ELSE GCD(b, a % b))

Abs(x) == IF x < 0 THEN -x ELSE x

Norm(r0) ==
  Strict(r0, LAMBDA r :
    IF r[1] = 0 THEN <<0, 1>>
    ELSE Strict(GCD(Abs(r[1]), r[2]), LAMBDA g :
           <<r[1] \div g, r[2] \div g>>))

\* the product of two rationals, cancelling before multiplying
RMul(a0, b0) ==
  Strict2(a0, b0, LAMBDA a, b :
    IF a[1] = 0 \/ b[1] = 0 THEN <<0, 1>>
    ELSE Strict2(GCD(a[1], b[2]), GCD(b[1], a[2]), LAMBDA g1, g2 :
           <<(a[1] \div g1) * (b[1] \div g2),
             (a[2] \div g2) * (b[2] \div g1)>>))

\* the quotient a / b, b > 0
RDiv(a, b) == RMul(a, <<b[2], b[1]>>)

\* a > b, compared over the least common denominator
RGt(a0, b0) ==
  Strict2(a0, b0, LAMBDA a, b :
    Strict(GCD(a[2], b[2]), LAMBDA g :
      a[1] * (b[2] \div g) > b[1] * (a[2] \div g)))

ROne == <<1, 1>>

\* np.log(p) and np.exp(x) in the representation of the header
Log(p) == Norm(p)
Exp(x) == x
\* x + y, x - y, x > y, max(x, y) on log-values
LAdd(x, y) == RMul(x, y)
LSub(x, y) == RDiv(x, y)
LGt(x, y) == RGt(x, y)
LMax(x0, y0) == Strict2(x0, y0, LAMBDA x, y : IF LGt(y, x) THEN y ELSE x)
\* the float 0.0 = log(1)
LZero == ROne

\* 1 - beta
OneMinus(b) == <<b[2] - b[1], b[2]>>

----------------------------------------------------------------------------
\* Python sequence operations.

Min(a, b) == IF a < b THEN a ELSE b
Max(a, b) == IF a > b THEN a ELSE b

\* a slice index as Python normalises it for a sequence of length n
PyIndex(n, k) == IF k < 0 THEN Max(n + k, 0) ELSE Min(k, n)

\* q[a:b] with 0-based, possibly negative, indices
PySlice(q, a, b) ==
  LET lo == PyIndex(Len(q), a)
      hi == PyIndex(Len(q), b)
  IN  IF lo >= hi THEN <<>> ELSE SubSeq(q, lo + 1, hi)

\* q[a:]
PySliceFrom(q, a) == PySlice(q, a, Len(q))

\* the set of sequences over S of length lo..hi
RECURSIVE SeqsOfLen(_, _)
SeqsOfLen(S, n) ==
  IF n <= 0 THEN {<<>>}
  ELSE {<<x>> \o q : x \in S, q \in SeqsOfLen(S, n - 1)}

SeqsBetween(S, lo, hi) == UNION {SeqsOfLen(S, n) : n \in lo..hi}

----------------------------------------------------------------------------
\* tree_class.py: the Tree object is the pair of nodes (a set) and edges
\* (a dict from a node to the list of its children).

Root == <<>>
EmptyDict == <<>>

\* d with key k removed (dict.pop on a present key, a no-op otherwise)
DictRemove(d, k) == [x \in (DOMAIN d) \ {k} |-> d[x]]

\* d with d[k] = v set
DictSet(d, k, v) == [x \in (DOMAIN d) \cup {k} |-> IF x = k THEN v ELSE d[x]]

\* Tree.__init__
NewTree == [nodes |-> {Root}, edges |-> EmptyDict]

\* [b+parent for b in self.s]
ChildrenOf(parent) == [k \in 1..m |-> <<s[k]>> \o parent]

\* add_node that inserts the node alone, without its siblings
add_node_alone(t, node) ==
  LET parent == PySliceFrom(node, 1)
  IN  IF parent \notin t.nodes
      THEN [ok |-> FALSE, nodes |-> t.nodes, edges |-> t.edges]
      ELSE [ok |-> TRUE,
            nodes |-> t.nodes \cup {node},
            edges |-> DictSet(t.edges, parent, ChildrenOf(parent))]

\* Tree.add_node: ok is FALSE when the assertion "parent in self.nodes" fails
add_node(t, node) ==
  LET parent == PySliceFrom(node, 1)
      siblings == ChildrenOf(parent)
  IN  IF parent \notin t.nodes
      THEN [ok |-> FALSE, nodes |-> t.nodes, edges |-> t.edges]
      ELSE [ok |-> TRUE,
            nodes |-> t.nodes \cup {siblings[k] : k \in 1..m},
            edges |-> DictSet(t.edges, parent, siblings)]

\* Tree.prune_at_node, with the loop over the children of node
RECURSIVE prune_at_node(_, _)
RECURSIVE PruneChildren(_, _, _)
PruneChildren(t0, children, k) ==
  IF k > Len(children) THEN t0
  ELSE Strict(t0, LAMBDA t :
         LET child == children[k]
             t1 == IF child \notin DOMAIN t.edges THEN t
                   ELSE prune_at_node(t, child)
         IN  PruneChildren([t1 EXCEPT !.nodes = @ \ {child}], children, k + 1))

\* prune_at_node without the recursion: only the children of node are removed
prune_shallow(t, node) ==
  IF node \notin DOMAIN t.edges THEN t
  ELSE [nodes |-> t.nodes \ {t.edges[node][k] : k \in 1..Len(t.edges[node])},
        edges |-> DictRemove(t.edges, node)]

\* prune_at_node that discards node itself as well
prune_and_drop(t, node) ==
  IF node \notin DOMAIN t.edges THEN t
  ELSE LET t1 == PruneChildren(t, t.edges[node], 1)
       IN  [nodes |-> t1.nodes \ {node}, edges |-> DictRemove(t1.edges, node)]

prune_at_node(t, node) ==
  IF node \notin DOMAIN t.edges THEN t
  ELSE Strict(PruneChildren(t, t.edges[node], 1), LAMBDA t1 :
         [t1 EXCEPT !.edges = DictRemove(@, node)])

----------------------------------------------------------------------------
\* construct_tau_max

joint_sample == initial_ctxt \o sample

\* Increment that sets the count to 1 whether or not the key is present
IncrementReset(c, key) == DictSet(c, key, 1)

\* counter[present] = 1 if absent, += 1 otherwise
Increment(c, key) ==
  DictSet(c, key, IF key \in DOMAIN c THEN c[key] + 1 ELSE 1)

\* the loop over j of one position of the scan; t is the tree with the counter,
\* t.ok is FALSE once add_node has raised
RECURSIVE ScanDepths(_, _, _)
ScanDepths(j, current_string, t0) ==
  Strict(t0, LAMBDA t :
    IF j > dmax \/ ~t.ok THEN t
    ELSE LET present == PySliceFrom(current_string, -j - 1)
             past == PySlice(present, 0, -1)
             adds == j >= 1 /\ past \notin t.nodes
         IN  Strict(add_node(t, past), LAMBDA a :
               IF adds /\ ~a.ok THEN [t EXCEPT !.ok = FALSE]
               ELSE ScanDepths(j + 1, current_string,
                      [ok |-> TRUE,
                       nodes |-> IF adds THEN a.nodes ELSE t.nodes,
                       edges |-> IF adds THEN a.edges ELSE t.edges,
                       counter |-> Increment(t.counter, present)])))

\* ScanPosition with the window one symbol short: joint_sample[i-dmax+1 : i+1]
ScanPositionShortWindow(pos, t) ==
  ScanDepths(0, PySlice(joint_sample, pos - dmax + 1, pos + 1), t)

\* one iteration of "for i in range(len(initial_ctxt), len(joint_sample))"
ScanPosition(pos, t) ==
  ScanDepths(0, PySlice(joint_sample, pos - dmax, pos + 1), t)

\* the loop that adds the unseen transitions with count 0
ZeroFilled(N, c) ==
  LET keys == {node \o <<s[k]>> : node \in N, k \in 1..m}
  IN  [x \in (DOMAIN c) \cup keys |-> IF x \in DOMAIN c THEN c[x] ELSE 0]

----------------------------------------------------------------------------
\* calc_log_pe

RECURSIVE SumSeq(_, _)
SumSeq(q, k) == IF k > Len(q) THEN 0 ELSE q[k] + SumSeq(q, k + 1)

\* sum of np.log(n - 0.5) for n in 1..count
RECURSIVE LogHalfFactorial(_)
LogHalfFactorial(count) ==
  IF count <= 0 THEN LZero
  ELSE LAdd(LogHalfFactorial(count - 1), Log(<<2 * count - 1, 2>>))

\* sum of np.log(n + m/2 - 1) for n in 1..nu
RECURSIVE LogDenominator(_)
LogDenominator(nu) ==
  IF nu <= 0 THEN LZero
  ELSE LAdd(LogDenominator(nu - 1), Log(<<2 * nu + m - 2, 2>>))

RECURSIVE LogNumerator(_, _)
LogNumerator(counts, k) ==
  IF k > Len(counts) THEN LZero
  ELSE LAdd(LogHalfFactorial(counts[k]), LogNumerator(counts, k + 1))

\* the value for the list of transition counts
log_pe_of_counts(transition_counts) ==
  IF \A k \in 1..m : transition_counts[k] = 0 THEN LZero
  ELSE LSub(LogNumerator(transition_counts, 1),
            LogDenominator(SumSeq(transition_counts, 1)))

\* whether counter[u+b] raises KeyError for some b
PeKeyError(c, u) == \E k \in 1..m : (u \o <<s[k]>>) \notin DOMAIN c

calc_log_pe(c, u) ==
  log_pe_of_counts([k \in 1..m |-> c[u \o <<s[k]>>]])

----------------------------------------------------------------------------
\* construct_log_pm_dict and the comparison of bct

\* sum of pm[child] over the list children
RECURSIVE SumChildLogPm(_, _, _)
SumChildLogPm(pm, children, k) ==
  IF k > Len(children) THEN LZero
  ELSE LAdd(pm[children[k]], SumChildLogPm(pm, children, k + 1))

\* np.log(beta) + log_pe_dict[node]
StopValue(pe, node) == LAdd(Log(beta), pe[node])

\* np.log(1-beta) + sum_child_log_pm
SplitValue(pm, children) ==
  LAdd(Log(OneMinus(beta)), SumChildLogPm(pm, children, 1))

\* whether a child of node has no value yet (KeyError)
ChildMissing(pm, children) ==
  \E k \in 1..Len(children) : children[k] \notin DOMAIN pm

\* log_pm_of with the test "size == dmax" left out
log_pm_of_no_depth_test(t, pe, pm, sz, node) ==
  IF node \notin DOMAIN t.edges THEN Log(beta)
  ELSE LMax(StopValue(pe, node), SplitValue(pm, t.edges[node]))

\* the value assigned to node at level sz
log_pm_of(t, pe, pm, sz, node) ==
  IF sz = dmax THEN pe[node]
  ELSE IF node \notin DOMAIN t.edges THEN Log(beta)
  ELSE LMax(StopValue(pe, node), SplitValue(pm, t.edges[node]))

\* whether computing the value of node raises KeyError
PmKeyError(t, pe, pm, sz, node) ==
  IF sz = dmax THEN node \notin DOMAIN pe
  ELSE IF node \notin DOMAIN t.edges THEN FALSE
  ELSE ChildMissing(pm, t.edges[node]) \/ node \notin DOMAIN pe

\* PruneWins with the comparison turned around
PruneWinsInverted(stop, split) == LGt(split, stop)

\* PruneWins with >= for >
PruneWinsOnTie(stop, split) == ~LGt(split, stop)

\* the condition of the if that prunes
PruneWins(stop, split) == LGt(stop, split)

----------------------------------------------------------------------------
\* the pruning loop of bct

\* queue.pop(0) in place of queue.remove(node)
RemoveHead(q, node) == IF q = <<>> THEN <<>> ELSE Tail(q)

\* queue.remove(node): the first occurrence of node is removed
RECURSIVE Remove(_, _)
Remove(q0, node) ==
  Strict(q0, LAMBDA q :
    IF q = <<>> THEN <<>>
    ELSE IF Head(q) = node THEN Tail(q)
    ELSE <<Head(q)>> \o Remove(Tail(q), node))

\* PruneBody that adds the children to the queue before it decides
PruneBodyEnqueueFirst(t, q, node) ==
  LET q1 == Remove(q, node)
  IN  IF node \notin DOMAIN t.edges
      THEN [ok |-> TRUE, nodes |-> t.nodes, edges |-> t.edges, queue |-> q1]
      ELSE IF PruneWins(StopValue(log_pe_dict, node),
                        SplitValue(log_pm_dict, t.edges[node]))
      THEN [ok |-> TRUE, nodes |-> prune_at_node(t, node).nodes,
            edges |-> prune_at_node(t, node).edges,
            queue |-> q1 \o t.edges[node]]
      ELSE [ok |-> TRUE, nodes |-> t.nodes, edges |-> t.edges,
            queue |-> q1 \o t.edges[node]]

\* the body of the while loop once node is chosen: the tree and queue after
\* it; ok is FALSE when log_pm_dict[child] raises KeyError
PruneBody(t0, q, node) ==
  Strict2(t0, Remove(q, node), LAMBDA t, q1 :
    IF node \notin DOMAIN t.edges
    THEN [ok |-> TRUE, nodes |-> t.nodes, edges |-> t.edges, queue |-> q1]
    ELSE IF ChildMissing(log_pm_dict, t.edges[node])
            \/ node \notin DOMAIN log_pe_dict
    THEN [ok |-> FALSE, nodes |-> t.nodes, edges |-> t.edges, queue |-> q1]
    ELSE IF PruneWins(StopValue(log_pe_dict, node),
                      SplitValue(log_pm_dict, t.edges[node]))
    THEN Strict(prune_at_node(t, node), LAMBDA t1 :
           [ok |-> TRUE, nodes |-> t1.nodes, edges |-> t1.edges, queue |-> q1])
    ELSE [ok |-> TRUE, nodes |-> t.nodes, edges |-> t.edges,
          queue |-> q1 \o t.edges[node]])

----------------------------------------------------------------------------
\* The inputs.  A call is valid when beta is in (0,1), dmax >= 0, the initial
\* context has at least dmax symbols and every symbol is in the alphabet.

ValidBetas == {<<1, 4>>, <<1, 2>>, <<3, 4>>}
OutOfRangeBetas == {<<0, 1>>, <<1, 1>>}

BetaInRange == RGt(beta, <<0, 1>>) /\ RGt(<<1, 1>>, beta)
SymbolsInAlphabet ==
  /\ \A k \in 1..Len(sample) : sample[k] \in Alphabet
  /\ \A k \in 1..Len(initial_ctxt) : initial_ctxt[k] \in Alphabet

ValidInput ==
  /\ BetaInRange
  /\ dmax >= 0
  /\ Len(initial_ctxt) >= dmax
  /\ SymbolsInAlphabet

\* The explored calls: every valid call within the bounds, and the calls
\* with exactly one argument out of range.
Calls(D, B, X, Ctxts(_)) ==
  UNION {{<<d, b, x, c>> : b \in B, x \in X, c \in Ctxts(d)} : d \in D}

Samples == SeqsBetween(Alphabet, 0, MaxSample)
\* the samples of the calls with an argument out of range have at most two
\* symbols: with a short initial context a symbol is counted dmax+1 times
ShortSamples == SeqsBetween(Alphabet, 0, 2)
BadSamples == SeqsBetween(Alphabet \cup {BadSymbol}, 0, 2) \ ShortSamples
\* initial contexts for depth d: of d or d+1 symbols, of fewer than d, of
\* exactly d, the one of d symbols s[1], and of at most one symbol
CtxtLong(d) == SeqsBetween(Alphabet, d, d + 1)
CtxtShort(d) == SeqsBetween(Alphabet, 0, d - 1)
CtxtExact(d) == SeqsOfLen(Alphabet, d)
CtxtFirst(d) == {[k \in 1..d |-> s[1]]}
CtxtZeroOrOne(d) == SeqsBetween(Alphabet, 0, 1)

Inputs ==
  Calls(0..MaxDmax, ValidBetas, Samples, CtxtLong)
    \cup Calls(1..MaxDmax, ValidBetas, ShortSamples, CtxtShort)
    \cup Calls(0..MaxDmax, OutOfRangeBetas, Samples, CtxtFirst)
    \cup Calls({-1}, ValidBetas, Samples, CtxtZeroOrOne)
    \cup Calls(0..MaxDmax, {<<1, 2>>}, BadSamples, CtxtFirst)

\* the valid calls whose initial context has exactly dmax symbols: a longer
\* context yields the tree of its last dmax symbols
ExactInputs == Calls(0..MaxDmax, ValidBetas, Samples, CtxtExact)

\* the state of a call with arguments from the set I, as construct_tau_max
\* enters its first loop
InitWith(I) ==
  /\ \E inp \in I :
       /\ dmax = inp[1]
       /\ beta = inp[2]
       /\ sample = inp[3]
       /\ initial_ctxt = inp[4]
  /\ pc = "scan"
  /\ i = Len(initial_ctxt)
  /\ nodes = NewTree.nodes
  /\ edges = NewTree.edges
  /\ counter = (Root :> Len(sample))
  /\ max_nodes = {}
  /\ max_edges = EmptyDict
  /\ log_pe_dict = EmptyDict
  /\ log_pm_dict = EmptyDict
  /\ size = dmax
  /\ queue = <<>>
  /\ visited = <<>>
  /\ pm_root = <<>>

Init == InitWith(Inputs)

InitAnyOrder == InitWith(ExactInputs)

----------------------------------------------------------------------------
\* The steps of bct.

\* one iteration of the scan of construct_tau_max
ScanStep ==
  /\ pc = "scan"
  /\ i < Len(joint_sample)
  /\ LET t == ScanPosition(i, [ok |-> TRUE, nodes |-> nodes, edges |-> edges,
                               counter |-> counter])
     IN  /\ nodes' = t.nodes
         /\ edges' = t.edges
         /\ counter' = t.counter
         /\ pc' = IF t.ok THEN "scan" ELSE "failed"
  /\ i' = i + 1
  /\ UNCHANGED <<dmax, beta, sample, initial_ctxt, max_nodes, max_edges,
                 log_pe_dict, log_pm_dict, size, queue, visited, pm_root>>

\* the end of construct_tau_max: the zero counts, and the return
FillZeros ==
  /\ pc = "scan"
  /\ i >= Len(joint_sample)
  /\ counter' = ZeroFilled(nodes, counter)
  /\ max_nodes' = nodes
  /\ max_edges' = edges
  /\ pc' = "pe"
  /\ UNCHANGED <<dmax, beta, sample, initial_ctxt, i, nodes, edges,
                 log_pe_dict, log_pm_dict, size, queue, visited, pm_root>>

\* log_pe_dict = {u: calc_log_pe(s, counter, u) for u in tau.nodes}
CalcLogPe ==
  /\ pc = "pe"
  /\ IF \E u \in nodes : PeKeyError(counter, u)
     THEN pc' = "failed" /\ UNCHANGED log_pe_dict
     ELSE /\ log_pe_dict' = [u \in nodes |-> calc_log_pe(counter, u)]
          /\ pc' = "pm"
  /\ UNCHANGED <<dmax, beta, sample, initial_ctxt, i, nodes, edges, counter,
                 max_nodes, max_edges, log_pm_dict, size, queue, visited,
                 pm_root>>

\* one iteration of "for size in range(dmax, 0-1, -1)"
PmLevel ==
  /\ pc = "pm"
  /\ size >= 0
  /\ LET t == [nodes |-> nodes, edges |-> edges]
         cur_nodes == {node \in nodes : Len(node) = size}
     IN  IF \E node \in cur_nodes :
               PmKeyError(t, log_pe_dict, log_pm_dict, size, node)
         THEN pc' = "failed" /\ UNCHANGED log_pm_dict
         ELSE /\ log_pm_dict' =
                   [node \in (DOMAIN log_pm_dict) \cup cur_nodes |->
                      IF node \in cur_nodes
                      THEN log_pm_of(t, log_pe_dict, log_pm_dict, size, node)
                      ELSE log_pm_dict[node]]
              /\ pc' = "pm"
  /\ size' = size - 1
  /\ UNCHANGED <<dmax, beta, sample, initial_ctxt, i, nodes, edges, counter,
                 max_nodes, max_edges, log_pe_dict, queue, visited, pm_root>>

\* the return of construct_log_pm_dict and queue = [""]
StartPrune ==
  /\ pc = "pm"
  /\ size < 0
  /\ queue' = <<Root>>
  /\ pc' = "prune"
  /\ UNCHANGED <<dmax, beta, sample, initial_ctxt, i, nodes, edges, counter,
                 max_nodes, max_edges, log_pe_dict, log_pm_dict, size,
                 visited, pm_root>>

\* one iteration of the while loop with the given node taken from the queue
PruneWith(node) ==
  /\ \E r \in {PruneBody([nodes |-> nodes, edges |-> edges], queue, node)} :
         /\ nodes' = r.nodes
         /\ edges' = r.edges
         /\ queue' = r.queue
         /\ pc' = IF r.ok THEN "prune" ELSE "failed"
  /\ UNCHANGED <<dmax, beta, sample, initial_ctxt, i, counter, max_nodes,
                 max_edges, log_pe_dict, log_pm_dict, size, pm_root>>

\* node = queue[0]
PruneStep ==
  /\ pc = "prune"
  /\ queue # <<>>
  /\ PruneWith(queue[1])
  /\ visited' = Append(visited, queue[1])

\* pm_root = np.exp(log_pm_dict[""]); return tau, pm_root
Return ==
  /\ pc = "prune"
  /\ queue = <<>>
  /\ IF Root \in DOMAIN log_pm_dict
     THEN pm_root' = Exp(log_pm_dict[Root]) /\ pc' = "done"
     ELSE pc' = "failed" /\ UNCHANGED pm_root
  /\ UNCHANGED <<dmax, beta, sample, initial_ctxt, i, nodes, edges, counter,
                 max_nodes, max_edges, log_pe_dict, log_pm_dict, size, queue,
                 visited>>

Next ==
  \/ ScanStep
  \/ FillZeros
  \/ CalcLogPe
  \/ PmLevel
  \/ StartPrune
  \/ PruneStep
  \/ Return

\* the while loop taking any element of the work-list, not the first
PruneAny ==
  /\ pc = "prune"
  /\ \E k \in 1..Len(queue) : PruneWith(queue[k])
  /\ UNCHANGED visited

NextAnyOrder ==
  \/ ScanStep
  \/ FillZeros
  \/ CalcLogPe
  \/ PmLevel
  \/ StartPrune
  \/ PruneAny
  \/ Return

\* the result of the while loop run first-in first-out from tree t and queue q
RECURSIVE FifoRun(_, _)
FifoRun(t, q) ==
  IF q = <<>> THEN t
  ELSE LET r == PruneBody(t, q, Head(q))
       IN  IF r.ok THEN FifoRun([nodes |-> r.nodes, edges |-> r.edges], r.queue)
           ELSE [nodes |-> r.nodes, edges |-> r.edges]

Spec == Init /\ [][Next]_vars

\* bct with the work-list visited in any order
SpecAnyOrder == InitAnyOrder /\ [][NextAnyOrder]_vars

\* The same program started from the one state in which bct has not been
\* called yet; Call is the call with its arguments.
InitIdle ==
  /\ dmax = 0
  /\ beta = <<1, 2>>
  /\ sample = <<>>
  /\ initial_ctxt = <<>>
  /\ pc = "idle"
  /\ i = 0
  /\ nodes = NewTree.nodes
  /\ edges = NewTree.edges
  /\ counter = (Root :> 0)
  /\ max_nodes = {}
  /\ max_edges = EmptyDict
  /\ log_pe_dict = EmptyDict
  /\ log_pm_dict = EmptyDict
  /\ size = 0
  /\ queue = <<>>
  /\ visited = <<>>
  /\ pm_root = <<>>

Call ==
  /\ pc = "idle"
  /\ \E inp \in Inputs :
       /\ dmax' = inp[1]
       /\ beta' = inp[2]
       /\ sample' = inp[3]
       /\ initial_ctxt' = inp[4]
       /\ i' = Len(inp[4])
       /\ counter' = (Root :> Len(inp[3]))
       /\ size' = inp[1]
  /\ pc' = "scan"
  /\ UNCHANGED <<nodes, edges, max_nodes, max_edges, log_pe_dict,
                 log_pm_dict, queue, visited, pm_root>>

NextFromIdle ==
  \/ Call
  \/ ScanStep
  \/ FillZeros
  \/ CalcLogPe
  \/ PmLevel
  \/ StartPrune
  \/ PruneStep
  \/ Return

\* the while loop takes its next iteration while the queue is not empty, and
\* bct goes on to its return once it is
FairSpec ==
  InitIdle /\ [][NextFromIdle]_vars /\ WF_vars(PruneStep) /\ WF_vars(Return)

----------------------------------------------------------------------------
\* Scores of trees, used to state the claims.

\* node[1:], the parent of a non-root node
Parent(node) == Tail(node)

\* u is a suffix of v: v is u or a descendant of u
IsSuffix(u, v) ==
  /\ Len(u) <= Len(v)
  /\ SubSeq(v, Len(v) - Len(u) + 1, Len(v)) = u

\* the score of node u as a leaf
LeafScore(u) ==
  IF Len(u) < dmax THEN LAdd(Log(beta), log_pe_dict[u]) ELSE log_pe_dict[u]

\* the score of the tree below u whose internal nodes are the keys of E
RECURSIVE TreeScore(_, _)
RECURSIVE SumTreeScore(_, _, _)
SumTreeScore(E, children, k) ==
  IF k > Len(children) THEN LZero
  ELSE LAdd(TreeScore(E, children[k]), SumTreeScore(E, children, k + 1))

TreeScore(E, u) ==
  IF u \in DOMAIN E
  THEN LAdd(Log(OneMinus(beta)), SumTreeScore(E, E[u], 1))
  ELSE LeafScore(u)

\* the prunings of the maximal subtree below u, each given by its set of
\* internal nodes
Prunings(u) ==
  {I \in SUBSET {v \in DOMAIN max_edges : IsSuffix(u, v)} :
     \A v \in I : v = u \/ Parent(v) \in I}

\* the maximal tree cut down to the internal nodes I
Restrict(I) == [v \in I |-> max_edges[v]]

\* the program has finished construct_log_pm_dict
PmComplete == pc \in {"prune", "done"}

\* construct_log_pm_dict has just returned
PmReturned == pc = "prune" /\ queue = <<Root>> /\ visited = <<>>

\* C1: for a valid input the returned tree has score exactly log_pm[""], and
\* pm_root is exp of that value
C1_ReturnedTreeScore ==
  (ValidInput /\ pc = "done") =>
     /\ TreeScore(edges, Root) = log_pm_dict[Root]
     /\ pm_root = Exp(log_pm_dict[Root])

\* a stop/split comparison of the run was an exact tie at an internal node
\* of the maximal tree that the returned tree still holds
TieAt(u) ==
  /\ u \in DOMAIN max_edges
  /\ StopValue(log_pe_dict, u) = SplitValue(log_pm_dict, max_edges[u])

C1_Witness ==
  /\ ValidInput
  /\ pc = "done"
  /\ \E u \in DOMAIN edges : TieAt(u)

\* C2: log_pm[u] is the maximum score over the prunings of the maximal
\* subtree below u; it is log_pe[u] at depth dmax; no node misses a value
C2_LogPmIsMaximum ==
  ValidInput =>
     /\ pc # "failed"
     /\ PmComplete => DOMAIN log_pm_dict = max_nodes
     /\ PmReturned =>
          /\ nodes = max_nodes /\ edges = max_edges
          /\ \A u \in max_nodes :
               /\ \A I \in Prunings(u) :
                    ~LGt(TreeScore(Restrict(I), u), log_pm_dict[u])
               /\ \E I \in Prunings(u) :
                    TreeScore(Restrict(I), u) = log_pm_dict[u]
               /\ Len(u) = dmax => log_pm_dict[u] = log_pe_dict[u]

C2_Witness ==
  /\ ValidInput
  /\ PmReturned
  /\ dmax = 2
  /\ \E u \in max_nodes :
       /\ Len(u) = 1
       /\ u \in DOMAIN max_edges
       /\ LGt(SplitValue(log_pm_dict, max_edges[u]), StopValue(log_pe_dict, u))
  /\ LGt(StopValue(log_pe_dict, Root), SplitValue(log_pm_dict, max_edges[Root]))

----------------------------------------------------------------------------
\* C3: a call with an out-of-range argument is rejected before any
\* computation: no node is added, no counter entry is incremented, and the
\* call never returns a tree and pm_root
C3_RejectedBeforeComputation ==
  ~ValidInput =>
     /\ pc # "done"
     /\ nodes = {Root}
     /\ counter[Root] = Len(sample)
     /\ \A key \in (DOMAIN counter) \ {Root} : counter[key] = 0

\* the invariant of the Tree object: the root is a node, every key of edges
\* has its m children, all nodes, and every other node has its parent, as a
\* node and as a key of edges, and all its siblings
TreeInvariant(N, E) ==
  /\ Root \in N
  /\ \A u \in DOMAIN E :
       /\ Len(E[u]) = m
       /\ \A k \in 1..m : E[u][k] = <<s[k]>> \o u /\ E[u][k] \in N
  /\ \A u \in N : Len(u) > 0 =>
       /\ Parent(u) \in N
       /\ Parent(u) \in DOMAIN E
       /\ \A b \in Alphabet : (<<b>> \o Parent(u)) \in N

\* the structure of a tree with node set N and edges E
StructureOK(N, E) ==
  /\ \A u \in N : Len(u) <= dmax
  /\ TreeInvariant(N, E)

\* construct_tau_max has returned
TauMaxBuilt == pc \in {"pe", "pm", "prune", "done"}

\* C4: the maximal tree returned by construct_tau_max has nodes of length
\* <= dmax, holds the root, maps every key of edges to its m children, all
\* nodes, and holds the parent and siblings of every non-root node
C4_MaximalTreeStructure ==
  (ValidInput /\ TauMaxBuilt) =>
     /\ StructureOK(max_nodes, max_edges)
     /\ pc = "pe" => (nodes = max_nodes /\ edges = max_edges)

C4_Witness ==
  /\ ValidInput
  /\ pc = "pe"
  /\ \E u \in max_nodes : Len(u) = 2 /\ Len(u) = dmax
  /\ \E u \in max_nodes : Len(u) = 1 /\ u \notin DOMAIN max_edges

\* the number of sample positions whose preceding Len(u) symbols are u
Windows(u) ==
  Cardinality({p \in (Len(initial_ctxt) + 1)..Len(joint_sample) :
                 SubSeq(joint_sample, p - Len(u), p - 1) = u})

\* C5: count conservation: for every node u of the maximal tree every
\* counter[u+b] exists and their sum over b is the number of sample positions
\* preceded by u; for the root it is len(sample) = counter[""]
C5_CountConservation ==
  (ValidInput /\ TauMaxBuilt) =>
     /\ \A u \in max_nodes :
          /\ \A b \in Alphabet : (u \o <<b>>) \in DOMAIN counter
          /\ SumSeq([k \in 1..m |-> counter[u \o <<s[k]>>]], 1) = Windows(u)
     /\ SumSeq([k \in 1..m |-> counter[<<s[k]>>]], 1) = Len(sample)
     /\ counter[Root] = Len(sample)

C5_Witness ==
  /\ ValidInput
  /\ TauMaxBuilt
  /\ \E u \in max_nodes : \E b \in Alphabet :
       Len(u) = 1 /\ counter[u \o <<b>>] >= 2
  /\ \E u \in max_nodes : \A b \in Alphabet : counter[u \o <<b>>] = 0

\* every proper ancestor of u is an internal node of the returned tree
AncestorsKept(u) ==
  \A k \in 1..Len(u) : SubSeq(u, k + 1, Len(u)) \in DOMAIN edges

\* C6: in the returned tree a node that had children in the maximal tree and
\* has no pruned proper ancestor is a leaf iff log(beta)+log_pe[u] is strictly
\* greater than log(1-beta) + the sum of log_pm over its children; on an
\* exact tie it keeps all its children
C6_PruneIffStrictlyGreater ==
  (ValidInput /\ pc = "done") =>
     \A u \in DOMAIN max_edges : AncestorsKept(u) =>
        /\ u \in nodes
        /\ u \notin DOMAIN edges <=>
             LGt(StopValue(log_pe_dict, u), SplitValue(log_pm_dict, max_edges[u]))
        /\ TieAt(u) =>
             /\ u \in DOMAIN edges
             /\ edges[u] = max_edges[u]
             /\ \A k \in 1..m : max_edges[u][k] \in nodes

C6_Witness ==
  /\ ValidInput
  /\ pc = "done"
  /\ \E u \in DOMAIN max_edges : AncestorsKept(u) /\ TieAt(u)
  /\ \E u \in DOMAIN max_edges :
       AncestorsKept(u) /\ u \notin DOMAIN edges /\ Len(u) = 1

----------------------------------------------------------------------------
\* C7: with any element of the work-list taken at each step the loop ends
\* with the nodes and edges the first-in first-out loop ends with
C7_OrderIndependent ==
  pc = "done" =>
     LET fifo == FifoRun([nodes |-> max_nodes, edges |-> max_edges], <<Root>>)
     IN  nodes = fifo.nodes /\ edges = fifo.edges

\* a run out of first-in first-out order with a prune still to come: the
\* children of the second child of the root are queued while the first child
\* of the root, at which the loop will prune, still waits
C7_Witness ==
  /\ ValidInput
  /\ pc = "prune"
  /\ \E j, k \in 1..Len(queue) :
       /\ queue[j] = <<s[1]>>
       /\ Parent(queue[k]) = <<s[2]>>
  /\ <<s[1]>> \in DOMAIN edges
  /\ LGt(StopValue(log_pe_dict, <<s[1]>>),
         SplitValue(log_pm_dict, edges[<<s[1]>>]))

\* no node taken from the queue twice
NoRepeat(q) == \A a, b \in 1..Len(q) : a # b => q[a] # q[b]

\* queued nodes are new, and each was queued by its parent kept as a split
QueueDiscipline ==
  /\ NoRepeat(visited \o queue)
  /\ \A k \in 1..Len(queue) :
       queue[k] # Root =>
          /\ Parent(queue[k]) \in DOMAIN edges
          /\ \E j \in 1..Len(visited) : visited[j] = Parent(queue[k])

\* C8: the pruning loop ends with an empty queue, and no node is taken from
\* the queue more than once: each is queued at most once, by its parent
\* being kept as a split
C8_LoopTerminates ==
  /\ (pc = "prune") ~> (pc # "prune" /\ queue = <<>>)
  /\ [](pc = "prune" => QueueDiscipline)
  /\ [](NoRepeat(visited))

C8_Witness ==
  /\ ValidInput
  /\ pc = "done"
  /\ queue = <<>>
  /\ Len(visited) >= 5
  /\ nodes # max_nodes

\* v is a proper descendant of u
ProperDescendant(u, v) == IsSuffix(u, v) /\ Len(v) > Len(u)

\* the contract of prune_at_node(node) on the tree t
PruneContract(t, node) ==
  LET r == prune_at_node(t, node)
  IN  IF node \notin DOMAIN t.edges
      THEN r.nodes = t.nodes /\ r.edges = t.edges
      ELSE /\ node \in r.nodes
           /\ node \notin DOMAIN r.edges
           /\ \A v \in t.nodes \cup DOMAIN t.edges :
                IF ProperDescendant(node, v)
                THEN v \notin r.nodes /\ v \notin DOMAIN r.edges
                ELSE /\ v \in t.nodes => v \in r.nodes
                     /\ (v \in DOMAIN t.edges /\ v # node) =>
                          (v \in DOMAIN r.edges /\ r.edges[v] = t.edges[v])
           /\ r.nodes \subseteq t.nodes
           /\ DOMAIN r.edges \subseteq DOMAIN t.edges
           /\ TreeInvariant(r.nodes, r.edges)

\* C9: on a tree satisfying the structure invariant prune_at_node(node)
\* changes nothing when node is no key of edges; otherwise node stays a
\* node, is no key of edges, no proper descendant of it is left in nodes or
\* edges, everything else is unchanged, and the invariant still holds
C9_PruneAtNodeFrame ==
  TreeInvariant(nodes, edges) =>
     \A node \in nodes \cup {<<b>> \o u : b \in Alphabet, u \in nodes} :
        PruneContract([nodes |-> nodes, edges |-> edges], node)

\* the loop has pruned at a node that had grandchildren
C9_Witness ==
  /\ ValidInput
  /\ pc \in {"prune", "done"}
  /\ TreeInvariant(nodes, edges)
  /\ \E u \in nodes :
       /\ u \in DOMAIN max_edges
       /\ u \notin DOMAIN edges
       /\ \E v \in max_nodes : IsSuffix(u, v) /\ Len(v) = Len(u) + 2

\* C10: during and after the pruning loop the nodes and the keys of edges
\* are subsets of those of the maximal tree, no step of the loop adds a node
\* or an edges entry, and the root is never removed
C10_PruningMonotonic ==
  /\ [](TauMaxBuilt =>
          /\ nodes \subseteq max_nodes
          /\ DOMAIN edges \subseteq DOMAIN max_edges
          /\ Root \in nodes)
  /\ [][pc = "prune" =>
          /\ nodes' \subseteq nodes
          /\ DOMAIN edges' \subseteq DOMAIN edges]_vars

C10_Witness ==
  /\ ValidInput
  /\ pc = "done"
  /\ nodes # max_nodes
  /\ nodes # {Root}
  /\ DOMAIN edges # DOMAIN max_edges

----------------------------------------------------------------------------
\* a node of the maximal tree of depth < dmax that is not a key of edges
ShallowLeaf(u) ==
  u \in max_nodes /\ Len(u) < dmax /\ u \notin DOMAIN max_edges

\* some transition from u was counted during the scan
Observed(u) == \E b \in Alphabet : counter[u \o <<b>>] > 0

\* C11: for a valid input every node of the maximal tree of depth < dmax
\* without children has all m transition counts 0, hence log_pe = 0.0, and
\* its log_pm = log(beta) is log(beta) + log_pe; equivalently every node of
\* depth < dmax with an observed transition is a key of edges
C11_UnseenLeafHasZeroCounts ==
  ValidInput =>
     /\ TauMaxBuilt =>
          \A u \in max_nodes :
             /\ ShallowLeaf(u) => \A b \in Alphabet : counter[u \o <<b>>] = 0
             /\ (Len(u) < dmax /\ Observed(u)) => u \in DOMAIN max_edges
     /\ pc \in {"pm", "prune", "done"} =>
          \A u \in max_nodes : ShallowLeaf(u) => log_pe_dict[u] = LZero
     /\ PmComplete =>
          \A u \in max_nodes :
             ShallowLeaf(u) =>
                /\ log_pm_dict[u] = Log(beta)
                /\ log_pm_dict[u] = StopValue(log_pe_dict, u)

C11_Witness ==
  /\ ValidInput
  /\ PmComplete
  /\ \E u \in max_nodes : ShallowLeaf(u) /\ u # Root
  /\ \E v \in max_nodes :
       /\ v # Root
       /\ Len(v) < dmax
       /\ Observed(v)
       /\ v \in DOMAIN max_edges

====
